---- MODULE Spec2Model ----
(***************************************************************************)
(* Asynchronous two-stage generation server (DeepSeek reasoning, Claude    *)
(* response): the task registry and pipeline of DeepseekClaudeServer, the  *)
(* rolling conversation context, the ConversationManager buffer and the    *)
(* history formatter.                                                      *)
(*                                                                         *)
(* JavaScript runs each handler or promise continuation to its next await  *)
(* without interleaving, so one action is one such run: from the arrival   *)
(* of a request or of a remote result up to the next suspension.           *)
(***************************************************************************)
EXTENDS Integers, Sequences, FiniteSets, TLC

VARIABLES
    \* DeepseekClaudeServer
    activeTasks,   \* Map<string, TaskStatus>: task id -> record, or NoTask
    context,       \* this.context.entries
    maxEntries,    \* this.context.maxEntries
    pc,            \* where each processTask invocation is suspended
    locals,        \* the closure of each processTask invocation
    nextId,        \* the next fresh task id (uuidv4)
    now,           \* Date.now()
    request,       \* per task: its outstanding completion request, or NoRequest
    \* history of the run (observation only, never read by the actions)
    issued,        \* per task: the models it has sent a request to, in order
    trail,         \* per task: every status written to the registry, in order
    effects,       \* per task: the changes it made to context.entries, in order
    cause,         \* per task: the step whose fault ended it, or "none"
    \* ConversationManager
    cm,            \* its context: [entries, maxEntries]
    cmAppended,    \* entries accepted by addEntry since construction
    cmCleared,     \* whether clearContext was ever called
    cmResult,      \* outcome of the last ConversationManager call
    \* history formatter calls
    fmtIn,         \* arguments of the last call
    fmtOut,        \* what it returned
    \* TaskManager
    tasks,         \* Map<string, TaskInfo>: task id -> record, or NoTask
    tmNextId,      \* the next fresh task id (uuidv4)
    tmReply,       \* what the last call that ended returned or threw
    waiter,        \* the waitForTaskUpdate call in progress, or Idle
    \* tool calls of the server
    reply,         \* what the last generate_response call returned
    checkReply,    \* what the last check_response_status call returned
    \* check_response_status of the declarative server
    poller,        \* the handleCheckResponseStatus call in progress, or Idle
    pollReply,     \* what the last handleCheckResponseStatus call returned
    \* which component the callers of this run drive
    client

serverVars == <<activeTasks, context, maxEntries, pc, locals, nextId, now,
                request, issued, trail, effects, cause>>
cmVars == <<cm, cmAppended, cmCleared, cmResult>>
fmtVars == <<fmtIn, fmtOut>>
tmVars == <<tasks, tmNextId, tmReply, waiter>>
toolVars == <<reply, checkReply>>
pollVars == <<poller, pollReply>>
vars == <<activeTasks, context, maxEntries, pc, locals, nextId, now,
          request, issued, trail, effects, cause,
          cm, cmAppended, cmCleared, cmResult, fmtIn, fmtOut,
          tasks, tmNextId, tmReply, waiter, reply, checkReply,
          poller, pollReply, client>>

----------------------------------------------------------------------------
(* Bounds of the model *)

MaxTasks == 2
MaxServerCap == 1
MaxCap == 2
MaxAppends == 3
MaxHistory == 3
MaxLimit == 24
MaxRegistered == 1
MaxTimeoutSteps == 4
MaxNow == 2

(* Program constants *)

ServerMaxEntries == 10
DEFAULT_MAX_ENTRIES == 10
POLL_INTERVAL == 100
POLL_DELAY_MS == 10000
CHECK_EVERY_MS == 100
DEEPSEEK_MAX_LENGTH == 50000
CLAUDE_MAX_LENGTH == 600000
DEEPSEEK_MODEL == "deepseek/deepseek-r1"
CLAUDE_MODEL == "anthropic/claude-3.5-sonnet:beta"

\* the value of an optional field that is not set
undefined == "<undefined>"

----------------------------------------------------------------------------
(* Strings and arrays *)

RECURSIVE Join(_, _)
\* Array.prototype.join
Join(parts, sep) ==
    IF Len(parts) = 0 THEN ""
    ELSE IF Len(parts) = 1 THEN parts[1]
    ELSE parts[1] \o sep \o Join(Tail(parts), sep)

\* Array.prototype.reverse
Reverse(s) == [i \in 1..Len(s) |-> s[Len(s) + 1 - i]]

\* JavaScript truthiness of a string that may be undefined
Truthy(s) == s # undefined /\ s # ""

----------------------------------------------------------------------------
(* History formatter *)

\* ClaudeMessage.content: a string, or an array of {type, text} parts
StrContent(s) == [isArray |-> FALSE, text |-> s, parts |-> <<>>]
ArrContent(ps) == [isArray |-> TRUE, text |-> "", parts |-> ps]
TextPart(s) == [type |-> "text", text |-> s]

formatMessage(msg) ==
    LET content == IF msg.content.isArray
                   THEN Join([i \in 1..Len(msg.content.parts) |->
                                  msg.content.parts[i].text], "\n")
                   ELSE msg.content.text
    IN (IF msg.role = "user" THEN "Human" ELSE "Assistant") \o ": " \o content

RECURSIVE formatLoop(_, _, _, _, _)
\* the for loop of formatMessagesWithinLimit, from index i down, newest first
formatLoop(history, maxLength, i, formattedMessages, totalLength) ==
    IF i < 1 THEN formattedMessages
    ELSE LET formattedMsg == formatMessage(history[i]) IN
         IF totalLength + Len(formattedMsg) > maxLength
         THEN formattedMessages
         ELSE formatLoop(history, maxLength, i - 1,
                         Append(formattedMessages, formattedMsg),
                         totalLength + Len(formattedMsg))

RECURSIVE formatLoopSkipping(_, _, _, _, _)
formatLoopSkipping(history, maxLength, i, formattedMessages, totalLength) ==
    IF i < 1 THEN formattedMessages
    ELSE LET formattedMsg == formatMessage(history[i]) IN
         IF totalLength + Len(formattedMsg) > maxLength
         THEN formatLoopSkipping(history, maxLength, i - 1,
                                 formattedMessages, totalLength)
         ELSE formatLoopSkipping(history, maxLength, i - 1,
                                 Append(formattedMessages, formattedMsg),
                                 totalLength + Len(formattedMsg))

\* formatMessagesWithinLimit with `continue` in place of `break`
formatMessagesWithinLimit_continue(history, maxLength) ==
    Reverse(formatLoopSkipping(history, maxLength, Len(history), <<>>, 0))

formatMessagesWithinLimit(history, maxLength) ==
    Reverse(formatLoop(history, maxLength, Len(history), <<>>, 0))

\* the formatted history text under a given bound
formatHistory(history, maxLength) ==
    Join(formatMessagesWithinLimit(history, maxLength), "\n\n")

formatHistoryForModel(history, isDeepSeek) ==
    formatHistory(history,
                  IF isDeepSeek THEN DEEPSEEK_MAX_LENGTH ELSE CLAUDE_MAX_LENGTH)

----------------------------------------------------------------------------
(* ConversationManager: the bounded buffer *)

EntryFields == {"timestamp", "prompt", "reasoning", "response", "model"}

\* validateMaxEntries: a positive integer (the inputs here are integers)
validateMaxEntries(n) == n > 0

\* validateEntry: an object holding all five required fields
validateEntry(entry) == EntryFields \subseteq DOMAIN entry

\* addEntry evicting the newest entry (pop) in place of the oldest (shift)
addEntry_pop(ctx, entry) ==
    LET pushed == Append(ctx.entries, entry)
    IN [ctx EXCEPT !.entries = IF Len(pushed) > ctx.maxEntries
                               THEN SubSeq(pushed, 1, Len(pushed) - 1)
                               ELSE pushed]

\* ConversationManager.addEntry on a valid entry, the context afterwards:
\* push, then shift once when the array is longer than maxEntries
addEntry(ctx, entry) ==
    LET pushed == Append(ctx.entries, entry)
    IN [ctx EXCEPT !.entries = IF Len(pushed) > ctx.maxEntries
                               THEN Tail(pushed)
                               ELSE pushed]

\* ConversationManager.clearContext
CM_clearContext(ctx) == [ctx EXCEPT !.entries = <<>>]

\* ConversationManager.getEntries: a frozen copy of the entries
getEntries(ctx) == ctx.entries

\* the entries the callers pass to addEntry
Entry(p) == [timestamp |-> 0, prompt |-> p, reasoning |-> "r",
             response |-> "a", model |-> CLAUDE_MODEL]
ValidEntries == {Entry("E1"), Entry("E2"), Entry("E3")}
InvalidEntries == {[timestamp |-> 0, prompt |-> "E1", reasoning |-> "r",
                    response |-> "a"]}
CapacityInputs == (0..MaxCap) \cup {DEFAULT_MAX_ENTRIES}

CMAddEntry(entry) ==
    /\ Len(cmAppended) < MaxAppends
    /\ IF validateEntry(entry)
       THEN /\ cm' = addEntry(cm, entry)
            /\ cmAppended' = Append(cmAppended, entry)
            /\ cmResult' = "ok"
       ELSE /\ cmResult' = "ConversationError"
            /\ UNCHANGED <<cm, cmAppended>>
    /\ UNCHANGED <<cmCleared, serverVars, fmtVars, tmVars, toolVars, client, pollVars>>

CMClearContext ==
    /\ cm' = CM_clearContext(cm)
    /\ cmCleared' = TRUE
    /\ cmResult' = "ok"
    /\ UNCHANGED <<cmAppended, serverVars, fmtVars, tmVars, toolVars, client, pollVars>>

----------------------------------------------------------------------------
(* Calls of the history formatter *)

NoCall == [called |-> FALSE]

Contents == {StrContent(""), StrContent("hello"),
             ArrContent(<<TextPart("a"), TextPart("b")>>)}
Messages == [role : {"user", "assistant"}, content : Contents]
Histories == UNION {[1..n -> Messages] : n \in 0..MaxHistory}
Limits == (0..MaxLimit) \cup {DEEPSEEK_MAX_LENGTH, CLAUDE_MAX_LENGTH}

\* the pending call returns
FormatHistory ==
    /\ fmtIn.called /\ ~fmtOut.called
    /\ fmtOut' = [called |-> TRUE,
                  messages |-> formatMessagesWithinLimit(fmtIn.history,
                                                         fmtIn.maxLength),
                  text |-> formatHistory(fmtIn.history, fmtIn.maxLength)]
    /\ UNCHANGED <<fmtIn, serverVars, cmVars, tmVars, toolVars, client, pollVars>>

----------------------------------------------------------------------------
(* DeepseekClaudeServer: registry records *)

TaskIds == 1..MaxTasks
NoTask == [status |-> "absent"]
Terminal == {"complete", "error"}

\* the record generate_response stores for a new task
pendingTask(prompt, showReasoning, time) ==
    [status |-> "pending", prompt |-> prompt, showReasoning |-> showReasoning,
     reasoning |-> undefined, response |-> undefined, error |-> undefined,
     timestamp |-> time]

\* a first update that is left out
reasoningTask_pending(task) == task

\* a first update that loses the record
reasoningTask_absent(task) == NoTask

\* {...task, status: 'reasoning'}
reasoningTask(task) == [task EXCEPT !.status = "reasoning"]

\* the responding update writing complete, one stage early
respondingTask_complete(task, reasoning) ==
    [task EXCEPT !.status = "complete", !.reasoning = reasoning]

\* the responding update without the reasoning field
respondingTask_noReasoning(task, reasoning) ==
    [task EXCEPT !.status = "responding"]

\* {...task, status: 'responding', reasoning}
respondingTask(task, reasoning) ==
    [task EXCEPT !.status = "responding", !.reasoning = reasoning]

\* the complete update without its status field: the spread task is the
\* record read at the start of processTask, whose status is pending
completeTask_noStatus(task, reasoning, response, time) ==
    [task EXCEPT !.reasoning = reasoning, !.response = response,
                 !.timestamp = time]

\* {...task, status: 'complete', reasoning, response, timestamp: Date.now()}
completeTask(task, reasoning, response, time) ==
    [task EXCEPT !.status = "complete", !.reasoning = reasoning,
                 !.response = response, !.timestamp = time]

\* what a remote call or a step of the pipeline can throw
ErrorObject(m) == [kind |-> "Error", message |-> m]
NonError == [kind |-> "value", message |-> undefined]
NoReasoningError == ErrorObject("No reasoning received from DeepSeek")
MalformedHistoryError == ErrorObject("Cannot read properties of null")
Faults == {ErrorObject("request failed"), NonError}

\* the catch block without its status field
errorTask_noStatus(task, error, time) ==
    [task EXCEPT !.error = IF error.kind = "Error" THEN error.message
                           ELSE "Unknown error",
                 !.timestamp = time]

\* the catch block of processTask: {...task, status: 'error', error, timestamp}
errorTask(task, error, time) ==
    [task EXCEPT !.status = "error",
                 !.error = IF error.kind = "Error" THEN error.message
                           ELSE "Unknown error",
                 !.timestamp = time]

\* a .catch handler that puts the failed task back to pending
backgroundFailure_requeue(current, error) ==
    [current EXCEPT !.status = "pending", !.error = error.message]

\* the handler generate_response attaches with .catch to processTask
backgroundFailure(current, error) ==
    [current EXCEPT !.status = "error", !.error = error.message]

----------------------------------------------------------------------------
(* DeepseekClaudeServer: rolling context and prompts *)

\* addToContext putting the new entry first
addToContext_front(entries, cap, entry) ==
    LET pushed == <<entry>> \o entries
    IN IF Len(pushed) > cap THEN Tail(pushed) ELSE pushed

\* addToContext without the shift
addToContext_unbounded(entries, cap, entry) == Append(entries, entry)

addToContext(entries, cap, entry) ==
    LET pushed == Append(entries, entry)
    IN IF Len(pushed) > cap THEN Tail(pushed) ELSE pushed

formatEntry(entry) ==
    "Question: " \o entry.prompt \o "\nReasoning: " \o entry.reasoning
        \o "\nAnswer: " \o entry.response

formatContextForPrompt(entries) ==
    Join([i \in 1..Len(entries) |-> formatEntry(entries[i])], "\n\n")

\* what findActiveConversation resolves to
NoHistory == [kind |-> "null"]
HistoryOf(msgs) == [kind |-> "messages", messages |-> msgs]
MalformedHistory == [kind |-> "malformed"]
HistoryResults ==
    {NoHistory,
     HistoryOf(<<[role |-> "user", content |-> StrContent("hi")]>>),
     MalformedHistory}

\* history ? formatHistoryForModel(history, isDeepSeek) : ''
historyText(history, isDeepSeek) ==
    IF history.kind = "messages"
    THEN formatHistoryForModel(history.messages, isDeepSeek)
    ELSE ""

\* reasoningPrompt of processTask
reasoningPrompt(task, history) ==
    LET reasoningHistory == historyText(history, TRUE)
    IN IF Truthy(reasoningHistory)
       THEN reasoningHistory \o "\n\nNew question: " \o task.prompt
       ELSE task.prompt

\* fullPrompt of processTask
fullPrompt(task, history) ==
    LET responseHistory == historyText(history, FALSE)
    IN IF Truthy(responseHistory)
       THEN responseHistory \o "\n\nCurrent task: " \o task.prompt
       ELSE task.prompt

\* the request getDeepseekReasoning sends, built from the context as it is then
deepseekRequest(entries, prompt) ==
    LET contextPrompt ==
            IF Len(entries) > 0
            THEN "Previous conversation:\n" \o formatContextForPrompt(entries)
                     \o "\n\nNew question: " \o prompt
            ELSE prompt
    IN [model |-> DEEPSEEK_MODEL,
        messages |-> <<[role |-> "user", content |-> contextPrompt]>>,
        read |-> entries]

contextTurn(entry) ==
    <<[role |-> "user", content |-> entry.prompt],
      [role |-> "assistant", content |-> entry.response]>>

RECURSIVE contextMessages(_)
\* this.context.entries.flatMap(entry => [user turn, assistant turn])
contextMessages(entries) ==
    IF Len(entries) = 0 THEN <<>>
    ELSE contextTurn(Head(entries)) \o contextMessages(Tail(entries))

\* a response request built without the context turns
claudeRequest_noContext(entries, prompt, reasoning) ==
    [model |-> CLAUDE_MODEL,
     messages |-> <<[role |-> "user", content |-> prompt],
                    [role |-> "assistant",
                     content |-> "<thinking>" \o reasoning \o "</thinking>"]>>,
     read |-> <<>>]

\* the request getFinalResponse sends, built from the context as it is then
claudeRequest(entries, prompt, reasoning) ==
    LET messages ==
            <<[role |-> "user", content |-> prompt],
              [role |-> "assistant",
               content |-> "<thinking>" \o reasoning \o "</thinking>"]>>
    IN [model |-> CLAUDE_MODEL,
        messages |-> IF Len(entries) > 0
                     THEN contextMessages(entries) \o messages
                     ELSE messages,
        read |-> entries]

\* the content as it came, empty or not
finalResponseText_asIs(content) == content

\* response.choices[0].message.content || "Error: No response content"
finalResponseText(content) ==
    IF Truthy(content) THEN content ELSE "Error: No response content"

----------------------------------------------------------------------------
(* DeepseekClaudeServer: generate_response and processTask *)

Prompts == {"q"}
ReasoningResults == {"r", ""}       \* "" stands for empty or missing reasoning
ContentResults == {"a", ""}         \* "" stands for empty or null content

\* the closure of a processTask invocation that has ended (or not begun)
NoLocals == [task |-> NoTask]
NoRequest == [model |-> "none"]

\* a failure path that also records the failed turn in the rolling context
Fail_append(t, error, step) ==
    LET caught == errorTask(locals[t].task, error, now)
        final == backgroundFailure(caught, error)
        entry == [timestamp |-> now, prompt |-> locals[t].task.prompt,
                  reasoning |-> "", response |-> "", model |-> CLAUDE_MODEL]
    IN /\ activeTasks' = [activeTasks EXCEPT ![t] = final]
       /\ trail' = [trail EXCEPT ![t] = @ \o <<caught.status, final.status>>]
       /\ cause' = [cause EXCEPT ![t] = step]
       /\ pc' = [pc EXCEPT ![t] = "done"]
       /\ locals' = [locals EXCEPT ![t] = NoLocals]
       /\ request' = [request EXCEPT ![t] = NoRequest]
       /\ context' = addToContext(context, maxEntries, entry)
       /\ effects' = [effects EXCEPT ![t] = Append(@, "append")]
       /\ UNCHANGED <<maxEntries, nextId, now, issued>>

\* a failure path that records the error and sends the reasoning request again
Fail_retry(t, error, step) ==
    LET caught == errorTask(locals[t].task, error, now)
        final == backgroundFailure(caught, error)
    IN /\ activeTasks' = [activeTasks EXCEPT ![t] = final]
       /\ trail' = [trail EXCEPT ![t] = @ \o <<caught.status, final.status>>]
       /\ cause' = [cause EXCEPT ![t] = step]
       /\ pc' = [pc EXCEPT ![t] = "stage1"]
       /\ request' = [request EXCEPT ![t] =
             deepseekRequest(context, locals[t].task.prompt)]
       /\ issued' = [issued EXCEPT ![t] = Append(@, DEEPSEEK_MODEL)]
       /\ UNCHANGED <<context, maxEntries, nextId, now, locals, effects>>

\* a failure path that stores the error record under every task id in use
Fail_all(t, error, step) ==
    LET caught == errorTask(locals[t].task, error, now)
        final == backgroundFailure(caught, error)
    IN /\ activeTasks' = [u \in TaskIds |->
                              IF activeTasks[u] # NoTask THEN final
                              ELSE activeTasks[u]]
       /\ trail' = [trail EXCEPT ![t] = @ \o <<caught.status, final.status>>]
       /\ cause' = [cause EXCEPT ![t] = step]
       /\ pc' = [pc EXCEPT ![t] = "done"]
       /\ locals' = [locals EXCEPT ![t] = NoLocals]
       /\ request' = [request EXCEPT ![t] = NoRequest]
       /\ UNCHANGED <<context, maxEntries, nextId, now, issued, effects>>

\* A fault inside the try block of processTask: its catch block stores the
\* error record and rethrows, the promise rejects, and the .catch handler of
\* generate_response runs on the rejection and stores its own record.
Fail(t, error, step) ==
    LET caught == errorTask(locals[t].task, error, now)
        final == backgroundFailure(caught, error)
    IN /\ activeTasks' = [activeTasks EXCEPT ![t] = final]
       /\ trail' = [trail EXCEPT ![t] = @ \o <<caught.status, final.status>>]
       /\ cause' = [cause EXCEPT ![t] = step]
       /\ pc' = [pc EXCEPT ![t] = "done"]
       /\ locals' = [locals EXCEPT ![t] = NoLocals]
       /\ request' = [request EXCEPT ![t] = NoRequest]
       /\ UNCHANGED <<context, maxEntries, nextId, now, issued, effects>>

\* The generate_response handler: stores the pending record, then runs
\* processTask up to its first await (the history read, or the reasoning call
\* when includeHistory is false).  showReasoning and clearContext FALSE stand
\* for false or undefined, includeHistory TRUE for true or undefined.
GenerateResponse(prompt, showReasoning, clearContext, includeHistory) ==
    LET t == nextId
        task == pendingTask(prompt, showReasoning, now)
        started == reasoningTask(task)
        entries == IF clearContext THEN <<>> ELSE context
    IN /\ nextId <= MaxTasks
       /\ nextId' = nextId + 1
       /\ context' = entries
       /\ effects' = [effects EXCEPT ![t] =
                          IF entries # context THEN <<"clear">> ELSE <<>>]
       /\ activeTasks' = [activeTasks EXCEPT ![t] = started]
       /\ trail' = [trail EXCEPT ![t] = <<task.status, started.status>>]
       /\ locals' = [locals EXCEPT ![t] =
                         [task |-> task, clearContext |-> clearContext,
                          includeHistory |-> includeHistory,
                          history |-> NoHistory, reasoning |-> undefined]]
       /\ IF includeHistory
          THEN /\ pc' = [pc EXCEPT ![t] = "history"]
               /\ UNCHANGED <<request, issued>>
          ELSE /\ pc' = [pc EXCEPT ![t] = "stage1"]
               /\ request' = [request EXCEPT ![t] =
                     deepseekRequest(entries, reasoningPrompt(task, NoHistory))]
               /\ issued' = [issued EXCEPT ![t] = <<DEEPSEEK_MODEL>>]
       /\ reply' = [taskId |-> t]
       /\ UNCHANGED <<maxEntries, now, cause, cmVars, fmtVars, tmVars,
                       checkReply, client, pollVars>>

\* findActiveConversation resolves; processTask formats the history and
\* getDeepseekReasoning sends the reasoning request.
HistoryReturn(t, history) ==
    /\ pc[t] = "history"
    /\ IF history.kind = "malformed"
       THEN Fail(t, MalformedHistoryError, "history")
       ELSE /\ locals' = [locals EXCEPT ![t].history = history]
            /\ request' = [request EXCEPT ![t] =
                  deepseekRequest(context,
                                  reasoningPrompt(locals[t].task, history))]
            /\ issued' = [issued EXCEPT ![t] = Append(@, DEEPSEEK_MODEL)]
            /\ pc' = [pc EXCEPT ![t] = "stage1"]
            /\ UNCHANGED <<activeTasks, context, maxEntries, nextId, now,
                           trail, effects, cause>>
    /\ UNCHANGED <<cmVars, fmtVars, tmVars, toolVars, client, pollVars>>

\* The reasoning call resolves: without reasoning getDeepseekReasoning throws;
\* otherwise the task moves to responding and getFinalResponse sends its request.
Stage1Return(t, reasoning) ==
    /\ pc[t] = "stage1"
    /\ IF ~Truthy(reasoning)
       THEN Fail(t, NoReasoningError, "stage1")
       ELSE LET responding == respondingTask(locals[t].task, reasoning)
            IN /\ activeTasks' = [activeTasks EXCEPT ![t] = responding]
               /\ trail' = [trail EXCEPT ![t] = Append(@, responding.status)]
               /\ locals' = [locals EXCEPT ![t].reasoning = reasoning]
               /\ request' = [request EXCEPT ![t] =
                     claudeRequest(context,
                                   fullPrompt(locals[t].task, locals[t].history),
                                   reasoning)]
               /\ issued' = [issued EXCEPT ![t] = Append(@, CLAUDE_MODEL)]
               /\ pc' = [pc EXCEPT ![t] = "stage2"]
               /\ UNCHANGED <<context, maxEntries, nextId, now, effects, cause>>
    /\ UNCHANGED <<cmVars, fmtVars, tmVars, toolVars, client, pollVars>>

\* The reasoning call rejects.
Stage1Fail(t, error) ==
    /\ pc[t] = "stage1"
    /\ Fail(t, error, "stage1")
    /\ UNCHANGED <<cmVars, fmtVars, tmVars, toolVars, client, pollVars>>

\* The response call resolves: the entry is added to the context and the task
\* is stored as complete.
Stage2Return(t, content) ==
    /\ pc[t] = "stage2"
    /\ LET task == locals[t].task
           reasoning == locals[t].reasoning
           response == finalResponseText(content)
           entry == [timestamp |-> now, prompt |-> task.prompt,
                     reasoning |-> reasoning, response |-> response,
                     model |-> CLAUDE_MODEL]
           complete == completeTask(task, reasoning, response, now)
       IN /\ context' = addToContext(context, maxEntries, entry)
          /\ effects' = [effects EXCEPT ![t] = Append(@, "append")]
          /\ activeTasks' = [activeTasks EXCEPT ![t] = complete]
          /\ trail' = [trail EXCEPT ![t] = Append(@, complete.status)]
          /\ pc' = [pc EXCEPT ![t] = "done"]
          /\ locals' = [locals EXCEPT ![t] = NoLocals]
          /\ request' = [request EXCEPT ![t] = NoRequest]
    /\ UNCHANGED <<maxEntries, nextId, now, issued, cause, cmVars, fmtVars,
                   tmVars, toolVars, client, pollVars>>

\* The response call rejects.
Stage2Fail(t, error) ==
    /\ pc[t] = "stage2"
    /\ Fail(t, error, "stage2")
    /\ UNCHANGED <<cmVars, fmtVars, tmVars, toolVars, client, pollVars>>

----------------------------------------------------------------------------
(* DeepseekClaudeServer: check_response_status *)

\* the ids a caller can pass: those of the tasks, one that no task will ever
\* have, and the empty string (0)
ToolIds == (0..MaxTasks) \cup {MaxTasks + 1}

\* this.activeTasks.get(taskId)
activeTask(taskId) == IF taskId \in TaskIds THEN activeTasks[taskId] ELSE NoTask

\* a status object that carries the reasoning whatever showReasoning is
statusResult_always(task) ==
    [status |-> task.status,
     reasoning |-> task.reasoning,
     response |-> IF task.status = "complete" THEN task.response ELSE undefined,
     error |-> task.error]

\* the object check_response_status answers with; JSON.stringify leaves out
\* the fields whose value is undefined
statusResult(task) ==
    [status |-> task.status,
     reasoning |-> IF task.showReasoning THEN task.reasoning ELSE undefined,
     response |-> IF task.status = "complete" THEN task.response ELSE undefined,
     error |-> task.error]

\* The check_response_status handler: a McpError for an id without a task,
\* otherwise the status object of the task as it is now.
CheckResponseStatus(taskId) ==
    /\ LET task == activeTask(taskId)
       IN checkReply' =
              IF task = NoTask
              THEN [op |-> "check_response_status", taskId |-> taskId,
                    error |-> "No task found with ID", result |-> NoTask]
              ELSE [op |-> "check_response_status", taskId |-> taskId,
                    error |-> undefined, result |-> statusResult(task)]
    /\ UNCHANGED <<serverVars, cmVars, fmtVars, tmVars, reply, client, pollVars>>

----------------------------------------------------------------------------
(* TaskManager: the task registry and its status waiter *)

\* ids: the k-th id uuidv4 produced is k; EmptyId stands for the empty string
TMIds == 1..MaxRegistered
EmptyId == 0
CallIds == (EmptyId..MaxRegistered) \cup {MaxRegistered + 1}

Statuses == {"pending", "reasoning", "responding", "complete", "error"}

\* String.prototype.trim on the prompts of the model: the whitespace-only
\* ones trim to the empty string, the others have no outer whitespace
Blanks == {"", "  "}
\* a trim that leaves whitespace in place
trim_identity(prompt) == prompt

trim(prompt) == IF prompt \in Blanks THEN "" ELSE prompt

\* validateTaskId, validateTimeout: TRUE when they do not throw
validateTaskId(taskId) == taskId # EmptyId
validateTimeout(timeout) == timeout > 0

\* a waiter that takes no status for final
isTaskComplete_never(status) == FALSE

isTaskComplete(status) == status \in {"complete", "error"}

\* a lookup that answers a fresh pending record for an id without a task
getTask_default(taskId) ==
    IF taskId \in TMIds /\ tasks[taskId] # NoTask THEN tasks[taskId]
    ELSE [status |-> "pending", prompt |-> "", showReasoning |-> FALSE,
          reasoning |-> undefined, response |-> undefined, error |-> undefined,
          timestamp |-> 0]

\* this.tasks.get(taskId)
getTask(taskId) == IF taskId \in TMIds THEN tasks[taskId] ELSE NoTask

\* the record createTask stores
newTask(prompt, showReasoning, time) ==
    [status |-> "pending", prompt |-> prompt, showReasoning |-> showReasoning,
     reasoning |-> undefined, response |-> undefined, error |-> undefined,
     timestamp |-> time]

\* {...task, ...updates}
spread(task, updates) ==
    [f \in DOMAIN task |-> IF f \in DOMAIN updates THEN updates[f] ELSE task[f]]

\* {...task, ...updates, timestamp: Date.now()}
updateTask(task, updates, time) ==
    [spread(task, updates) EXCEPT !.timestamp = time]

\* {...task, ...additionalInfo, status, timestamp: Date.now()}
setTaskStatus(task, status, additionalInfo, time) ==
    [spread(task, additionalInfo) EXCEPT !.status = status, !.timestamp = time]

\* what the callers pass
TMPrompts == {"q"} \cup Blanks
NoFields == <<>>
Updates == {[status |-> "responding", reasoning |-> "r"]}
Infos == {NoFields}

\* time is counted in steps of half a polling interval
TimeStep == POLL_INTERVAL \div 2
Timeouts == {k * TimeStep : k \in 0..MaxTimeoutSteps}

NoReply == [op |-> "none"]
Idle == [state |-> "idle"]

\* the outcome of a synchronous registry call: error is the message of the
\* TaskError thrown, or undefined
Outcome(op, taskId, error) == [op |-> op, taskId |-> taskId, error |-> error]

CreateTask(prompt, showReasoning) ==
    /\ IF trim(prompt) = ""
       THEN /\ tmReply' = Outcome("createTask", EmptyId, "Prompt cannot be empty")
            /\ UNCHANGED <<tasks, tmNextId>>
       ELSE /\ tmNextId <= MaxRegistered
            /\ tasks' = [tasks EXCEPT ![tmNextId] =
                             newTask(prompt, showReasoning, now)]
            /\ tmNextId' = tmNextId + 1
            /\ tmReply' = Outcome("createTask", tmNextId, undefined)
    /\ UNCHANGED <<waiter, serverVars, cmVars, fmtVars, toolVars, client, pollVars>>

UpdateTask(taskId, updates) ==
    /\ IF ~validateTaskId(taskId)
       THEN /\ tmReply' = Outcome("updateTask", taskId, "Invalid task ID")
            /\ UNCHANGED tasks
       ELSE IF getTask(taskId) = NoTask
       THEN /\ tmReply' = Outcome("updateTask", taskId, "Task not found")
            /\ UNCHANGED tasks
       ELSE /\ tasks' = [tasks EXCEPT ![taskId] = updateTask(@, updates, now)]
            /\ tmReply' = Outcome("updateTask", taskId, undefined)
    /\ UNCHANGED <<tmNextId, waiter, serverVars, cmVars, fmtVars, toolVars,
                   client, pollVars>>

SetTaskStatus(taskId, status, additionalInfo) ==
    /\ IF ~validateTaskId(taskId)
       THEN /\ tmReply' = Outcome("setTaskStatus", taskId, "Invalid task ID")
            /\ UNCHANGED tasks
       ELSE IF getTask(taskId) = NoTask
       THEN /\ tmReply' = Outcome("setTaskStatus", taskId, "Task not found")
            /\ UNCHANGED tasks
       ELSE /\ tasks' = [tasks EXCEPT ![taskId] =
                             setTaskStatus(@, status, additionalInfo, now)]
            /\ tmReply' = Outcome("setTaskStatus", taskId, undefined)
    /\ UNCHANGED <<tmNextId, waiter, serverVars, cmVars, fmtVars, toolVars,
                   client, pollVars>>

\* what a waitForTaskUpdate call gave back: the record it returned, or the
\* message of the TaskError it threw; by is the place it ended at (at entry,
\* after the interval callback settled the promise, after the timeout did)
WaitOutcome(taskId, by, elapsed, error, task) ==
    [op |-> "waitForTaskUpdate", taskId |-> taskId, by |-> by,
     elapsed |-> elapsed, error |-> error, task |-> task]

\* waitForTaskUpdate after its promise resolved: reads the registry again
afterWait(by) ==
    LET finalTask == getTask(waiter.taskId)
    IN WaitOutcome(waiter.taskId, by, waiter.elapsed,
                   IF finalTask = NoTask THEN "Task no longer exists"
                   ELSE undefined,
                   finalTask)

\* The call of waitForTaskUpdate up to its await: it throws, returns the
\* record of a task that has ended, or starts the interval and the timeout
\* and suspends.
WaitForTaskUpdate(taskId, timeout) ==
    /\ waiter = Idle
    /\ LET task == getTask(taskId)
           thrown(message) == WaitOutcome(taskId, "entry", 0, message, NoTask)
       IN IF ~validateTaskId(taskId)
          THEN tmReply' = thrown("Invalid task ID") /\ UNCHANGED waiter
          ELSE IF ~validateTimeout(timeout)
          THEN tmReply' = thrown("Timeout must be a positive number")
               /\ UNCHANGED waiter
          ELSE IF task = NoTask
          THEN tmReply' = thrown("Task not found") /\ UNCHANGED waiter
          ELSE IF isTaskComplete(task.status)
          THEN tmReply' = WaitOutcome(taskId, "entry", 0, undefined, task)
               /\ UNCHANGED waiter
          ELSE /\ waiter' = [state |-> "waiting", taskId |-> taskId,
                             timeout |-> timeout,
                             initialStatus |-> task.status, elapsed |-> 0,
                             nextPoll |-> POLL_INTERVAL]
               /\ UNCHANGED tmReply
    /\ UNCHANGED <<tasks, tmNextId, serverVars, cmVars, fmtVars, toolVars,
                   client, pollVars>>

\* an interval callback that resolves whatever the status is
CheckInterval_eager ==
    /\ waiter.state = "waiting"
    /\ waiter.elapsed >= waiter.nextPoll
    /\ tmReply' = afterWait("interval")
    /\ waiter' = Idle
    /\ UNCHANGED <<tasks, tmNextId, serverVars, cmVars, fmtVars, toolVars,
                   client, pollVars>>

\* The setInterval callback of a suspended call: rejects when the task is
\* gone, resolves when its status differs from the one seen at entry or is
\* final, and otherwise waits for the next interval.
CheckInterval ==
    /\ waiter.state = "waiting"
    /\ waiter.elapsed >= waiter.nextPoll
    /\ LET currentTask == getTask(waiter.taskId)
       IN IF currentTask = NoTask
          THEN /\ tmReply' = WaitOutcome(waiter.taskId, "interval",
                                         waiter.elapsed,
                                         "Task no longer exists", NoTask)
               /\ waiter' = Idle
          ELSE IF currentTask.status # waiter.initialStatus
                    \/ isTaskComplete(currentTask.status)
          THEN /\ tmReply' = afterWait("interval")
               /\ waiter' = Idle
          ELSE /\ waiter' = [waiter EXCEPT !.nextPoll = @ + POLL_INTERVAL]
               /\ UNCHANGED tmReply
    /\ UNCHANGED <<tasks, tmNextId, serverVars, cmVars, fmtVars, toolVars,
                   client, pollVars>>

\* a call that sets no timeout
WaitTimeout_never == FALSE /\ UNCHANGED vars

\* The setTimeout callback of a suspended call: clears the interval and
\* resolves.
WaitTimeout ==
    /\ waiter.state = "waiting"
    /\ waiter.elapsed >= waiter.timeout
    /\ tmReply' = afterWait("timeout")
    /\ waiter' = Idle
    /\ UNCHANGED <<tasks, tmNextId, serverVars, cmVars, fmtVars, toolVars,
                   client, pollVars>>

\* a timer of the suspended call is due
TimerDue ==
    /\ waiter.state = "waiting"
    /\ waiter.elapsed >= waiter.nextPoll \/ waiter.elapsed >= waiter.timeout

\* Time passes for the suspended call, whose timers depend only on the time
\* since they were set; a timer that is due fires before more time passes.
Tick ==
    /\ waiter.state = "waiting"
    /\ ~TimerDue
    /\ waiter' = [waiter EXCEPT !.elapsed = @ + TimeStep]
    /\ UNCHANGED <<tasks, tmNextId, tmReply, serverVars, cmVars, fmtVars,
                   toolVars, client, pollVars>>

----------------------------------------------------------------------------
(* Declarative server: handleCheckResponseStatus, which waits *)

\* The pipeline of the declarative server is the code of processTask again,
\* so its registry goes through the states modelled by activeTasks.

\* time is counted in steps of a fraction of the delay, each a multiple of
\* the checking interval
PollStep == POLL_DELAY_MS \div MaxTimeoutSteps

\* what a handleCheckResponseStatus call gave back: the status object it
\* returned, or the message of the Error it threw
PollOutcome(taskId, error, result) ==
    [op |-> "check_response_status", taskId |-> taskId, error |-> error,
     result |-> result]

\* handleCheckResponseStatus after its promise resolved: reads the registry
\* again and answers with the status object of the task as it is then
afterPoll ==
    LET finalTask == activeTask(poller.taskId)
    IN IF finalTask = NoTask
       THEN PollOutcome(poller.taskId, "Task no longer exists", NoTask)
       ELSE PollOutcome(poller.taskId, undefined, statusResult(finalTask))

\* The call of handleCheckResponseStatus up to its await: it throws, answers
\* at once for a task that has ended, or starts the interval and the timeout
\* and suspends.
HandleCheckResponseStatus(taskId) ==
    /\ poller = Idle
    /\ LET task == activeTask(taskId)
       IN IF task = NoTask
          THEN /\ pollReply' = PollOutcome(taskId, "No task found with ID", NoTask)
               /\ UNCHANGED poller
          ELSE IF task.status \in {"complete", "error"}
          THEN /\ pollReply' = PollOutcome(taskId, undefined, statusResult(task))
               /\ UNCHANGED poller
          ELSE /\ poller' = [state |-> "waiting", taskId |-> taskId,
                             initialStatus |-> task.status, elapsed |-> 0,
                             nextPoll |-> CHECK_EVERY_MS]
               /\ UNCHANGED pollReply
    /\ UNCHANGED <<serverVars, cmVars, fmtVars, tmVars, toolVars, client>>

\* The setInterval callback of a suspended call: rejects when the task is
\* gone, resolves when its status differs from the one seen at entry or is
\* final, and otherwise waits for the next interval.  The callbacks that came
\* due within one step of time saw the same registry; one run stands for them.
PollCheckInterval ==
    /\ poller.state = "waiting"
    /\ poller.elapsed >= poller.nextPoll
    /\ LET currentTask == activeTask(poller.taskId)
       IN IF currentTask = NoTask
          THEN /\ pollReply' = PollOutcome(poller.taskId,
                                           "Task no longer exists", NoTask)
               /\ poller' = Idle
          ELSE IF \/ currentTask.status # poller.initialStatus
                  \/ currentTask.status = "complete"
                  \/ currentTask.status = "error"
          THEN /\ pollReply' = afterPoll
               /\ poller' = Idle
          ELSE /\ poller' = [poller EXCEPT
                                 !.nextPoll = poller.elapsed + CHECK_EVERY_MS]
               /\ UNCHANGED pollReply
    /\ UNCHANGED <<serverVars, cmVars, fmtVars, tmVars, toolVars, client>>

\* The setTimeout callback of a suspended call, after POLL_DELAY_MS: clears the
\* interval and resolves.
PollDelayTimeout ==
    /\ poller.state = "waiting"
    /\ poller.elapsed >= POLL_DELAY_MS
    /\ pollReply' = afterPoll
    /\ poller' = Idle
    /\ UNCHANGED <<serverVars, cmVars, fmtVars, tmVars, toolVars, client>>

\* Time passes for the suspended call; a timer that is due fires before more
\* time passes.
PollTick ==
    /\ poller.state = "waiting"
    /\ poller.elapsed < poller.nextPoll
    /\ poller.elapsed < POLL_DELAY_MS
    /\ poller' = [poller EXCEPT !.elapsed = @ + PollStep]
    /\ UNCHANGED <<pollReply, serverVars, cmVars, fmtVars, tmVars, toolVars,
                   client>>

----------------------------------------------------------------------------
(* Specifications *)

\* every object as constructed; the ConversationManager with its default
\* capacity, the server context with capacity `cap`
Constructed(cap, cmCap, call) ==
    /\ activeTasks = [t \in TaskIds |-> NoTask]
    /\ context = <<>>
    /\ maxEntries = cap
    /\ pc = [t \in TaskIds |-> "idle"]
    /\ locals = [t \in TaskIds |-> NoLocals]
    /\ nextId = 1
    /\ now = 0
    /\ request = [t \in TaskIds |-> NoRequest]
    /\ issued = [t \in TaskIds |-> <<>>]
    /\ trail = [t \in TaskIds |-> <<>>]
    /\ effects = [t \in TaskIds |-> <<>>]
    /\ cause = [t \in TaskIds |-> "none"]
    /\ cm = [entries |-> <<>>, maxEntries |-> cmCap]
    /\ cmAppended = <<>>
    /\ cmCleared = FALSE
    /\ cmResult = "ok"
    /\ fmtIn = call
    /\ fmtOut = NoCall
    /\ tasks = [id \in TMIds |-> NoTask]
    /\ tmNextId = 1
    /\ tmReply = NoReply
    /\ waiter = Idle
    /\ reply = NoReply
    /\ checkReply = NoReply
    /\ poller = Idle
    /\ pollReply = NoReply

\* The server declares maxEntries: 10; every capacity behaves alike until it
\* is reached, so the model also runs the server with the small capacities
\* 1..MaxServerCap, where eviction happens within MaxTasks tasks.
ServerCapacities == (1..MaxServerCap) \cup {ServerMaxEntries}

Init ==
    /\ \E cap \in ServerCapacities : Constructed(cap, DEFAULT_MAX_ENTRIES, NoCall)
    /\ client = "server"

\* the requests and remote results, generate_response being called with
\* showReasoning drawn from showOptions
NextWith(showOptions) ==
    \/ \E prompt \in Prompts, showReasoning \in showOptions,
          clearCtx, includeHistory \in BOOLEAN :
           GenerateResponse(prompt, showReasoning, clearCtx, includeHistory)
    \/ \E t \in TaskIds, history \in HistoryResults : HistoryReturn(t, history)
    \/ \E t \in TaskIds, reasoning \in ReasoningResults : Stage1Return(t, reasoning)
    \/ \E t \in TaskIds, error \in Faults : Stage1Fail(t, error)
    \/ \E t \in TaskIds, content \in ContentResults : Stage2Return(t, content)
    \/ \E t \in TaskIds, error \in Faults : Stage2Fail(t, error)

Next == NextWith(BOOLEAN)

Spec == Init /\ [][Next]_vars

\* ConversationManager, constructed with any capacity its constructor accepts
InitCM ==
    \E cmCap \in {n \in CapacityInputs : validateMaxEntries(n)} :
        /\ Constructed(ServerMaxEntries, cmCap, NoCall)
        /\ client = "ConversationManager"

NextCM ==
    \/ \E entry \in ValidEntries \cup InvalidEntries : CMAddEntry(entry)
    \/ CMClearContext

SpecCM == InitCM /\ [][NextCM]_vars

\* the history formatter, called with any history and bound
InitFormat ==
    \E history \in Histories, maxLength \in Limits :
        /\ Constructed(ServerMaxEntries, DEFAULT_MAX_ENTRIES,
                       [called |-> TRUE, history |-> history,
                        maxLength |-> maxLength])
        /\ client = "formatter"

NextFormat == FormatHistory

SpecFormat == InitFormat /\ [][NextFormat]_vars

\* TaskManager and its callers
InitTM ==
    /\ Constructed(ServerMaxEntries, DEFAULT_MAX_ENTRIES, NoCall)
    /\ client = "TaskManager"

NextTM ==
    \/ \E prompt \in TMPrompts : CreateTask(prompt, FALSE)
    \/ \E taskId \in CallIds, updates \in Updates : UpdateTask(taskId, updates)
    \/ \E taskId \in CallIds, status \in Statuses, info \in Infos :
           SetTaskStatus(taskId, status, info)
    \/ \E taskId \in CallIds, timeout \in Timeouts :
           WaitForTaskUpdate(taskId, timeout)
    \/ CheckInterval
    \/ WaitTimeout
    \/ Tick

SpecTM == InitTM /\ [][NextTM]_vars

\* The waiter with time passing and every timer of a suspended call firing
\* when it is due.  Whether a suspended call returns does not depend on the
\* calls that throw nor on the fields beside the status, so the fair
\* specification has the calls on the ids of the registry only, and the
\* status changes only.
FairNextTM ==
    \/ CreateTask("q", FALSE)
    \/ \E taskId \in TMIds, status \in {"reasoning", "complete"} :
           SetTaskStatus(taskId, status, NoFields)
    \/ \E taskId \in TMIds, timeout \in Timeouts :
           WaitForTaskUpdate(taskId, timeout)
    \/ CheckInterval
    \/ WaitTimeout
    \/ Tick

FairSpecTM ==
    /\ InitTM
    /\ [][FairNextTM]_vars
    /\ WF_vars(CheckInterval) /\ WF_vars(WaitTimeout) /\ WF_vars(Tick)

\* the reasoning texts the reasoning call returns to the tools' tasks
ReasoningTexts == {"r", "s", ""}

\* The repository holds two registries that share no state, the tasks of
\* TaskManager and the activeTasks of the server; a run drives one of them:
\* the TaskManager, or the tools of the server with tasks created without
\* history and without clearContext.
InitApi ==
    /\ Constructed(ServerMaxEntries, DEFAULT_MAX_ENTRIES, NoCall)
    /\ client \in {"TaskManager", "server"}

Drives(component) == client = component

NextApi ==
    \/ \E prompt \in TMPrompts :
           Drives("TaskManager") /\ CreateTask(prompt, FALSE)
    \/ \E taskId \in CallIds, updates \in Updates :
           Drives("TaskManager") /\ UpdateTask(taskId, updates)
    \/ \E taskId \in CallIds, status \in Statuses, info \in Infos :
           Drives("TaskManager") /\ SetTaskStatus(taskId, status, info)
    \/ \E taskId \in CallIds, timeout \in Timeouts :
           Drives("TaskManager") /\ WaitForTaskUpdate(taskId, timeout)
    \/ Drives("TaskManager") /\ CheckInterval
    \/ Drives("TaskManager") /\ WaitTimeout
    \/ Drives("TaskManager") /\ Tick
    \/ \E showReasoning \in BOOLEAN :
           Drives("server") /\ GenerateResponse("q", showReasoning, FALSE, FALSE)
    \/ \E t \in TaskIds, reasoning \in ReasoningTexts :
           Drives("server") /\ Stage1Return(t, reasoning)
    \/ \E t \in TaskIds : Drives("server") /\ Stage2Return(t, "a")
    \/ \E t \in TaskIds :
           Drives("server") /\ Stage2Fail(t, ErrorObject("request failed"))
    \/ \E taskId \in ToolIds : Drives("server") /\ CheckResponseStatus(taskId)

SpecApi == InitApi /\ [][NextApi]_vars

\* generate_response called with any prompt, blank ones included
ToolPrompts == {"q"} \cup Blanks
NextPrompt ==
    \/ \E prompt \in ToolPrompts : GenerateResponse(prompt, FALSE, FALSE, FALSE)
    \/ \E t \in TaskIds : Stage1Return(t, "r")
    \/ \E t \in TaskIds : Stage2Return(t, "a")

SpecPrompt == Init /\ [][NextPrompt]_vars

\* Tasks told apart by their texts: generate_response called with either of
\* two prompts and with or without clearContext, the remote calls returning
\* either of two texts or failing, several such tasks in flight at once.
ContextPrompts == {"p", "q"}
ContextReasonings == {"r", "s"}
ContextContents == {"a", "b"}
NextContext ==
    \/ \E prompt \in ContextPrompts, clearCtx \in BOOLEAN :
           GenerateResponse(prompt, FALSE, clearCtx, FALSE)
    \/ \E t \in TaskIds, reasoning \in ContextReasonings :
           Stage1Return(t, reasoning)
    \/ \E t \in TaskIds, content \in ContextContents : Stage2Return(t, content)
    \/ \E t \in TaskIds : Stage2Fail(t, ErrorObject("request failed"))

SpecContext == Init /\ [][NextContext]_vars

\* Date.now() moves on between two runs of the event loop.
Advance ==
    /\ now < MaxNow
    /\ now' = now + 1
    /\ UNCHANGED <<activeTasks, context, maxEntries, pc, locals, nextId,
                   request, issued, trail, effects, cause,
                   cmVars, fmtVars, tmVars, toolVars, client, pollVars>>

\* the pipeline with time passing between its steps
NextClock ==
    \/ GenerateResponse("q", FALSE, FALSE, FALSE)
    \/ \E t \in TaskIds, reasoning \in ReasoningResults : Stage1Return(t, reasoning)
    \/ \E t \in TaskIds, content \in ContentResults : Stage2Return(t, content)
    \/ \E t \in TaskIds : Stage2Fail(t, ErrorObject("request failed"))
    \/ Advance

SpecClock == Init /\ [][NextClock]_vars

\* The two servers on the same task histories: a run drives the tools of the
\* low-level server or those of the declarative server, whose pipelines are
\* the same code; check_response_status is called at any moment for any id.
InitServers ==
    /\ Constructed(ServerMaxEntries, DEFAULT_MAX_ENTRIES, NoCall)
    /\ client \in {"server", "declarative server"}

NextServers ==
    \/ GenerateResponse("q", TRUE, FALSE, FALSE)
    \/ \E t \in TaskIds, reasoning \in ReasoningResults : Stage1Return(t, reasoning)
    \/ \E t \in TaskIds : Stage2Return(t, "a")
    \/ \E taskId \in ToolIds : Drives("server") /\ CheckResponseStatus(taskId)
    \/ \E taskId \in ToolIds :
           Drives("declarative server") /\ HandleCheckResponseStatus(taskId)
    \/ Drives("declarative server") /\ PollCheckInterval
    \/ Drives("declarative server") /\ PollDelayTimeout
    \/ Drives("declarative server") /\ PollTick

SpecServers == InitServers /\ [][NextServers]_vars

----------------------------------------------------------------------------
(* Properties *)

Created(t) == activeTasks[t] # NoTask
Count(seq, x) == Cardinality({i \in 1..Len(seq) : seq[i] = x})
Min(a, b) == IF a < b THEN a ELSE b
LastK(seq, k) == SubSeq(seq, Len(seq) - k + 1, Len(seq))
RECURSIVE TotalLen(_)
TotalLen(strings) ==
    IF Len(strings) = 0 THEN 0 ELSE Len(Head(strings)) + TotalLen(Tail(strings))

\* C1: in every reachable state, whatever the interleaving of task creations
\* (with or without clearContext) and task completions, the rolling context
\* holds at most maxEntries entries.
C1_ContextBounded == Len(context) <= maxEntries

\* C1 witness: a full context of capacity 1 after two tasks appended to it
C1_Witness ==
    /\ maxEntries = 1
    /\ Len(context) = maxEntries
    /\ Cardinality({t \in TaskIds : Count(effects[t], "append") > 0}) >= 2

\* C2: after N valid appends to a buffer of capacity K constructed empty and
\* never cleared, getEntries returns the last min(N, K) appended entries in
\* their insertion order.
C2_LastEntriesKept ==
    ~cmCleared =>
        getEntries(cm) =
            LastK(cmAppended, Min(Len(cmAppended), cm.maxEntries))

\* C2 witness: capacity 2, E1, E2, E3 appended, [E2, E3] returned
C2_Witness ==
    /\ cm.maxEntries = 2
    /\ ~cmCleared
    /\ cmAppended = <<Entry("E1"), Entry("E2"), Entry("E3")>>
    /\ getEntries(cm) = <<Entry("E2"), Entry("E3")>>

\* C3: the text the history formatter returns is never longer than the bound
\* it was given.
C3_TextWithinBound ==
    fmtOut.called => Len(fmtOut.text) <= fmtIn.maxLength

\* C4: the formatter keeps a contiguous suffix of the history, rendered in
\* chronological order, and it stopped at the first message, from the newest
\* back, whose rendered length added to the total so far exceeds the bound.
C4_SuffixKept ==
    fmtOut.called =>
        LET history == fmtIn.history
            kept == fmtOut.messages
            k == Len(kept)
            n == Len(history)
        IN /\ k <= n
           /\ kept = [i \in 1..k |-> formatMessage(history[n - k + i])]
           /\ fmtOut.text = Join(kept, "\n\n")
           /\ TotalLen(kept) <= fmtIn.maxLength
           /\ k < n =>
                  TotalLen(kept) + Len(formatMessage(history[n - k]))
                      > fmtIn.maxLength

\* C4 witness: a history of which only a proper, non-empty suffix fits
C4_Witness ==
    /\ fmtOut.called
    /\ Len(fmtOut.messages) > 0
    /\ Len(fmtOut.messages) < Len(fmtIn.history)

NonTerminal == {"pending", "reasoning", "responding"}
AllowedChanges ==
    {<<"pending", "reasoning">>, <<"reasoning", "responding">>,
     <<"responding", "complete">>} \cup (NonTerminal \X {"error"})

\* C5: every change of status written to the registry for a task is
\* pending->reasoning, reasoning->responding, responding->complete, or a move
\* from pending, reasoning or responding to error; the first status written
\* is pending and the registry holds the last one written.
C5_StatusChangesAllowed ==
    \A t \in TaskIds :
        /\ Created(t) <=> trail[t] # <<>>
        /\ Created(t) =>
               /\ trail[t][1] = "pending"
               /\ activeTasks[t].status = trail[t][Len(trail[t])]
        /\ \A i \in 1..(Len(trail[t]) - 1) :
               trail[t][i] # trail[t][i + 1] =>
                   <<trail[t][i], trail[t][i + 1]>> \in AllowedChanges

\* C5 witness: one task went through every stage to complete while another
\* failed in its response stage
C5_Witness ==
    \E t, u \in TaskIds :
        /\ trail[t] = <<"pending", "reasoning", "responding", "complete">>
        /\ Len(trail[u]) >= 4
        /\ SubSeq(trail[u], 1, 4) = <<"pending", "reasoning", "responding", "error">>

\* C6: once complete or error has been written for a task, every later write
\* for that task (the .catch handler of generate_response included) writes the
\* same status, and a task that has ended holds that status.
C6_TerminalStatusKept ==
    \A t \in TaskIds :
        /\ \A i, j \in 1..Len(trail[t]) :
               (i < j /\ trail[t][i] \in Terminal) => trail[t][j] = trail[t][i]
        /\ (Created(t) /\ \E i \in 1..Len(trail[t]) : trail[t][i] \in Terminal)
               => activeTasks[t].status \in Terminal

\* C6 witness: the .catch handler has written after the catch block of
\* processTask stored error
C6_Witness ==
    \E t \in TaskIds :
        /\ Len(trail[t]) >= 4
        /\ trail[t][Len(trail[t]) - 1] = "error"
        /\ activeTasks[t].status = "error"

\* each outstanding call of task t eventually returns or fails
TaskStep(t) ==
    \/ \E history \in HistoryResults : HistoryReturn(t, history)
    \/ \E reasoning \in ReasoningResults : Stage1Return(t, reasoning)
    \/ \E error \in Faults : Stage1Fail(t, error)
    \/ \E content \in ContentResults : Stage2Return(t, content)
    \/ \E error \in Faults : Stage2Fail(t, error)

\* processTask never reads showReasoning, so progress does not depend on it:
\* the fair specification creates every task with showReasoning false.
FairNext == NextWith({FALSE})

FairSpec == Init /\ [][FairNext]_vars /\ \A t \in TaskIds : WF_vars(TaskStep(t))

\* C7: every created task eventually reaches complete or error, provided each
\* of its outstanding calls eventually returns or fails, whatever the other
\* tasks do.
C7_EventuallyTerminal ==
    \A t \in TaskIds : Created(t) ~> (activeTasks[t].status \in Terminal)

\* C7 witness: a task has ended while a task created before it is in flight
C7_Witness ==
    \E t, u \in TaskIds :
        /\ t < u
        /\ pc[t] \in {"history", "stage1", "stage2"}
        /\ Created(u) /\ activeTasks[u].status \in Terminal

\* C8: reasoning is absent while a task is pending or reasoning and present
\* once it is responding; response is present exactly when it is complete.
C8_FieldsFollowStatus ==
    \A t \in TaskIds :
        Created(t) =>
            LET task == activeTasks[t]
            IN /\ task.status \in {"pending", "reasoning"}
                      => task.reasoning = undefined
               /\ task.status = "responding" => Truthy(task.reasoning)
               /\ task.response # undefined <=> task.status = "complete"

\* C8 witness: one task responding with its reasoning, another complete with
\* its response
C8_Witness ==
    \E t, u \in TaskIds :
        /\ activeTasks[t].status = "responding"
        /\ Truthy(activeTasks[t].reasoning)
        /\ activeTasks[u].status = "complete"
        /\ Truthy(activeTasks[u].response)

\* C9: a task has appended to the rolling context exactly once when it is
\* complete and not at all in any other status, so the append and the move to
\* complete are one step and a task that ends in error never appends.
C9_OneAppendPerSuccess ==
    \A t \in TaskIds :
        Count(effects[t], "append") =
            IF Created(t) /\ activeTasks[t].status = "complete" THEN 1 ELSE 0

\* C9 witness: a completed task beside a failed one, the context holding the
\* single entry of the completed one
C9_Witness ==
    \E t, u \in TaskIds :
        /\ activeTasks[t].status = "complete"
        /\ activeTasks[u].status = "error"
        /\ pc[u] = "done"
        /\ Len(context) = 1

\* C10 as stated: a task whose reasoning-stage call failed went directly from
\* reasoning to error and has not changed the rolling context in any way.
C10_NoMutationOnReasoningFailure ==
    \A t \in TaskIds :
        cause[t] = "stage1" =>
            /\ SubSeq(trail[t], 1, 3) = <<"pending", "reasoning", "error">>
            /\ effects[t] = <<>>

\* C10 amended: the step in which the reasoning-stage call of a task fails
\* takes the task from reasoning directly to error and leaves the rolling
\* context alone; the task never appends; the one change it can have made is
\* the clear at its creation, made only when it was created with clearContext
\* true; and it changes nothing afterwards.
C10_OnlyRequestedClear ==
    [][\A t \in TaskIds :
          /\ (cause[t] = "none" /\ cause'[t] = "stage1") =>
                 /\ activeTasks[t].status = "reasoning"
                 /\ activeTasks'[t].status = "error"
                 /\ trail'[t] = <<"pending", "reasoning", "error", "error">>
                 /\ context' = context
                 /\ effects'[t] = effects[t]
                 /\ effects[t] \in {<<>>, <<"clear">>}
                 /\ effects[t] = <<"clear">> => locals[t].clearContext
          /\ cause[t] = "stage1" => effects'[t] = effects[t]]_vars

\* C10 witness: a task created with clearContext emptied a non-empty context
\* and then failed in its reasoning stage
C10_Witness ==
    \E t \in TaskIds : cause[t] = "stage1" /\ effects[t] = <<"clear">>

\* C11 as stated: a created task holds a non-empty error message exactly when
\* its status is error, whatever fault (an Error with a message, or a value
\* that is no Error) ended its pipeline.
C11_ErrorMessageIffError ==
    \A t \in TaskIds :
        Created(t) =>
            (Truthy(activeTasks[t].error) <=> activeTasks[t].status = "error")

\* a status waiter call that ended by returning the record of task taskId
Returned(r, taskId) ==
    /\ r.op \in {"waitForTaskUpdate", "check_response_status"}
    /\ r.taskId = taskId
    /\ r.error = undefined

C13_ReturnsOnChangeOrTimeout ==
    [][/\ waiter.state = "waiting" => waiter.initialStatus \in NonTerminal
       /\ (waiter.state = "waiting" /\ waiter' = Idle) =>
              LET taskId == waiter.taskId
                  changed == tasks[taskId].status # waiter.initialStatus
                  ended == tasks[taskId].status \in Terminal
                  timedOut == waiter.elapsed >= waiter.timeout
              IN /\ changed \/ ended \/ timedOut
                 /\ Returned(tmReply', taskId)
                 /\ tmReply'.task = tasks'[taskId]
                 /\ tasks' = tasks
                 /\ tmReply'.elapsed = waiter.elapsed
                 /\ tmReply'.by = "interval" => changed \/ ended
                 /\ tmReply'.by = "timeout" => timedOut]_vars

\* C13 witness: a call on a pending task that the interval callback ended at
\* its first poll, 100 ms after the call, with the record of the task as the
\* registry holds it, now in status reasoning
C13_Witness ==
    /\ Returned(tmReply, 1)
    /\ tmReply.by = "interval"
    /\ tmReply.elapsed = POLL_INTERVAL
    /\ tmReply.task.status = "reasoning"
    /\ tasks[1] = tmReply.task

\* C14: a waitForTaskUpdate call that suspended (valid timeout, known task)
\* eventually returns, and it is never suspended for longer than its timeout,
\* whether or not the task ever changes; timers fire when they are due.
C14_WaitEnds ==
    /\ [](waiter.state = "waiting" => waiter.elapsed <= waiter.timeout)
    /\ (waiter.state = "waiting") ~> (waiter = Idle)

\* C14 witness: a call returned by its timeout callback after 200 ms, the
\* task still pending as at entry
C14_Witness ==
    /\ Returned(tmReply, 1)
    /\ tmReply.by = "timeout"
    /\ tmReply.elapsed = 4 * TimeStep
    /\ tmReply.task.status = "pending"
    /\ tmReply.task = tasks[1]

\* no task was ever created under this id
NeverCreated(taskId) == taskId \notin TMIds \/ tasks[taskId] = NoTask

\* C15: a step in which a waitForTaskUpdate, updateTask or setTaskStatus call
\* on an id that no task of the TaskManager was created under ends, or a
\* check_response_status call on an id that no task of the server was created
\* under, ends with an error thrown and leaves the registry, the suspended
\* call and the rolling context as they were; no call suspends on such an id.
\* The error says that the task was not found; from the TaskManager it says
\* for the empty id that the id is invalid, and for a timeout that is not
\* positive that the timeout is.
C15_UnknownIdFails ==
    [][/\ (/\ tmReply' # tmReply
           /\ tmReply'.op \in {"updateTask", "setTaskStatus", "waitForTaskUpdate"}
           /\ NeverCreated(tmReply'.taskId))
          => /\ tmReply'.error \in
                    IF tmReply'.taskId = EmptyId THEN {"Invalid task ID"}
                    ELSE IF tmReply'.op = "waitForTaskUpdate"
                    THEN {"Task not found", "Timeout must be a positive number"}
                    ELSE {"Task not found"}
             /\ tasks' = tasks
             /\ waiter' = waiter
             /\ context' = context
       /\ (waiter = Idle /\ waiter'.state = "waiting")
          => ~NeverCreated(waiter'.taskId)
       /\ (/\ checkReply' # checkReply
           /\ (checkReply'.taskId \notin TaskIds
                   \/ activeTasks[checkReply'.taskId] = NoTask))
          => /\ checkReply'.error = "No task found with ID"
             /\ checkReply'.result = NoTask
             /\ activeTasks' = activeTasks
             /\ context' = context]_vars

\* C15 witness: a registry that holds a task, and a waitForTaskUpdate call on
\* another id that threw at entry because no task was found
C15_Witness ==
    /\ tasks[1] # NoTask
    /\ tmReply.op = "waitForTaskUpdate"
    /\ tmReply.taskId = MaxRegistered + 1
    /\ tmReply.error = "Task not found"
    /\ waiter = Idle

\* C16: createTask with an empty or whitespace-only prompt throws and leaves
\* the registry as it was; with any other prompt it stores one new record, in
\* status pending and with that prompt, under an id that held no task, leaves
\* every other record alone, and returns that id.
C16_CreateTaskValidates ==
    [][\A prompt \in TMPrompts :
           CreateTask(prompt, FALSE) =>
               IF prompt \in Blanks
               THEN /\ tmReply' = Outcome("createTask", EmptyId,
                                          "Prompt cannot be empty")
                    /\ tasks' = tasks
                    /\ tmNextId' = tmNextId
               ELSE \E taskId \in TMIds :
                        /\ tasks[taskId] = NoTask
                        /\ tasks'[taskId].status = "pending"
                        /\ tasks'[taskId].prompt = prompt
                        /\ \A other \in TMIds \ {taskId} :
                               tasks'[other] = tasks[other]
                        /\ tmReply' = Outcome("createTask", taskId, undefined)]_vars

\* C16 witness: scenario C, createTask with a blank prompt threw, the registry
\* holding the one task created before with a proper prompt
C16_Witness ==
    /\ tmReply = Outcome("createTask", EmptyId, "Prompt cannot be empty")
    /\ tasks[1] # NoTask
    /\ tasks[1].prompt = "q"
    /\ tmNextId = 2

\* C17 as stated: generate_response with an empty or whitespace-only prompt
\* creates no task, starts no pipeline and issues no remote call, so no task
\* with such a prompt is in the registry and no request was sent for one.
C17_BlankPromptRejected ==
    \A t \in TaskIds :
        Created(t) =>
            /\ activeTasks[t].prompt \notin Blanks
            /\ (issued[t] # <<>> => activeTasks[t].prompt \notin Blanks)

\* C18: the step in which generate_response returns a task id is the step of
\* the call itself: the id is fresh, the registry holds the task when the
\* handler returns, and the pipeline of the task is then suspended at its
\* first await, with at most the reasoning request sent and no result of a
\* remote call received by it.
C18_ReturnsBeforeRemoteCalls ==
    [][reply' # reply =>
           LET t == reply'.taskId
           IN /\ t \in TaskIds
              /\ activeTasks[t] = NoTask
              /\ activeTasks'[t] # NoTask
              /\ activeTasks'[t].status = "reasoning"
              /\ pc'[t] \in {"history", "stage1"}
              /\ pc'[t] = "history" => request'[t] = NoRequest /\ issued'[t] = <<>>
              /\ pc'[t] = "stage1"
                     => /\ request'[t].model = DEEPSEEK_MODEL
                        /\ issued'[t] = <<DEEPSEEK_MODEL>>
              /\ \A u \in TaskIds \ {t} :
                     pc'[u] = pc[u] /\ request'[u] = request[u]]_vars

\* C18 witness: generate_response returned the id of the second task while
\* the reasoning call of the first and its own are both outstanding
C18_Witness ==
    /\ reply = [taskId |-> 2]
    /\ Created(2)
    /\ pc[1] = "stage1" /\ request[1].model = DEEPSEEK_MODEL
    /\ pc[2] = "stage1" /\ request[2].model = DEEPSEEK_MODEL

\* the same task record but for the reasoning text
SameButReasoning(a, b) == [a EXCEPT !.reasoning = ""] = [b EXCEPT !.reasoning = ""]

\* C19: in every state, for every task, what check_response_status answers
\* holds reasoning only if the task was created with showReasoning true, and
\* a response only if the status it answers is complete; this holds of the
\* last answer given as well; and two tasks created without showReasoning
\* whose records differ in nothing but the reasoning text get equal answers.
C19_ReasoningOnlyIfRequested ==
    /\ \A t \in TaskIds :
           Created(t) =>
               LET result == statusResult(activeTasks[t])
               IN /\ result.reasoning # undefined => activeTasks[t].showReasoning
                  /\ result.response # undefined => result.status = "complete"
    /\ (checkReply.op = "check_response_status" /\ checkReply.error = undefined)
           => /\ checkReply.result.reasoning # undefined
                     => activeTasks[checkReply.taskId].showReasoning
              /\ checkReply.result.response # undefined
                     => checkReply.result.status = "complete"
    /\ \A t, u \in TaskIds :
           (/\ Created(t) /\ Created(u)
            /\ ~activeTasks[t].showReasoning /\ ~activeTasks[u].showReasoning
            /\ SameButReasoning(activeTasks[t], activeTasks[u]))
           => statusResult(activeTasks[t]) = statusResult(activeTasks[u])

\* C19 witness: two complete tasks created without showReasoning whose
\* reasoning texts differ, and the answer for one of them, with the response
\* and without reasoning
C19_Witness ==
    \E t, u \in TaskIds :
        /\ activeTasks[t].status = "complete" /\ activeTasks[u].status = "complete"
        /\ ~activeTasks[t].showReasoning /\ ~activeTasks[u].showReasoning
        /\ activeTasks[t].reasoning = "r" /\ activeTasks[u].reasoning = "s"
        /\ Returned(checkReply, t)
        /\ checkReply.result =
               [status |-> "complete", reasoning |-> undefined,
                response |-> "a", error |-> undefined]

\* C20: a step of the pipeline of one task (its creation, a status update, a
\* stage ending, a failure being recorded) leaves the registry entry of every
\* other task as it was, whatever tasks are in flight; so a step changes the
\* entry of at most one task, the one whose pipeline moved.
C20_OnlyOwnEntryWritten ==
    [][\A t \in TaskIds :
           (pc'[t] # pc[t] \/ trail'[t] # trail[t]
                \/ activeTasks'[t] # activeTasks[t])
           => /\ pc'[t] # pc[t]
              /\ \A u \in TaskIds \ {t} :
                     /\ activeTasks'[u] = activeTasks[u]
                     /\ trail'[u] = trail[u]
                     /\ pc'[u] = pc[u]]_vars

\* C20 witness: a task failed while a task created before it is in its
\* response stage, its entry still the one its own pipeline wrote
C20_Witness ==
    /\ pc[1] = "stage2"
    /\ activeTasks[1].status = "responding"
    /\ activeTasks[1].error = undefined
    /\ pc[2] = "done"
    /\ activeTasks[2].status = "error"

TripleOf(r) == <<r.prompt, r.reasoning, r.response>>

\* C21: with tasks completing in any interleaving, every entry of the rolling
\* context is the whole (prompt, reasoning, response) triple of a task that
\* reached complete, the prompt being the one the task was created with (a
\* record never changes its prompt); the context changes only by a clear at
\* the creation of a task and by the step that completes a task, which puts
\* that task's triple last and drops the oldest entry only when the capacity
\* is exceeded, so the entries are in completion order.
C21_EntriesAreWholeTriples ==
    [][/\ \A i \in 1..Len(context') :
              \E t \in TaskIds :
                  /\ activeTasks'[t].status = "complete"
                  /\ TripleOf(context'[i]) = TripleOf(activeTasks'[t])
       /\ \A t \in TaskIds :
              Created(t) => activeTasks'[t].prompt = activeTasks[t].prompt
       /\ \A t \in TaskIds :
              (activeTasks[t].status # "complete"
                   /\ activeTasks'[t].status = "complete")
              => /\ Len(context') = Min(Len(context) + 1, maxEntries)
                 /\ TripleOf(context'[Len(context')]) = TripleOf(activeTasks'[t])
                 /\ context' = LastK(Append(context, context'[Len(context')]),
                                     Len(context'))
       /\ (\A t \in TaskIds : activeTasks'[t].status = "complete"
                                  => activeTasks[t].status = "complete")
              => \/ context' = context
                 \/ /\ context' = <<>>
                    /\ \E t \in TaskIds : ~Created(t) /\ activeTasks'[t] # NoTask
      ]_vars

\* C21 witness: two tasks with different prompts were in flight together, the
\* one created last completed first, and the context holds both triples in
\* completion order
C21_Witness ==
    /\ activeTasks[1].status = "complete"
    /\ activeTasks[2].status = "complete"
    /\ activeTasks[1].prompt # activeTasks[2].prompt
    /\ Len(context) = 2
    /\ TripleOf(context[1]) = TripleOf(activeTasks[2])
    /\ TripleOf(context[2]) = TripleOf(activeTasks[1])

\* C22 as stated: every step that changes the registry record of a task
\* leaves the record with the time of that step as its timestamp.
C22_TimestampRefreshed ==
    [][\A t \in TaskIds :
           activeTasks'[t] # activeTasks[t] => activeTasks'[t].timestamp = now'
      ]_vars

\* C23 as stated: whatever the history read resolves to (null, messages, or
\* content that is no list of messages), no task is ended by its history
\* step, and a task that has sent no request yet is still in status reasoning.
C23_HistoryNeverFails ==
    \A t \in TaskIds :
        /\ cause[t] # "history"
        /\ (Created(t) /\ issued[t] = <<>>) => activeTasks[t].status = "reasoning"

\* C24: a task sends the reasoning request at most once and the response
\* request at most once, in that order; the step that sends the response
\* request is the one in which the reasoning call returned a non-empty
\* reasoning, which it stores in the record; and once a task is in error it
\* sends nothing more and has no request outstanding.
C24_CallsOnceNoRetry ==
    [][\A t \in TaskIds :
           /\ issued'[t] \in {<<>>, <<DEEPSEEK_MODEL>>,
                              <<DEEPSEEK_MODEL, CLAUDE_MODEL>>}
           /\ (issued'[t] # issued[t] /\ Len(issued'[t]) = 2)
                  => /\ pc[t] = "stage1"
                     /\ request[t].model = DEEPSEEK_MODEL
                     /\ Truthy(locals'[t].reasoning)
                     /\ activeTasks'[t].reasoning = locals'[t].reasoning
           /\ activeTasks[t].status = "error"
                  => /\ issued'[t] = issued[t]
                     /\ request[t] = NoRequest
                     /\ request'[t] = NoRequest
      ]_vars

\* C24 witness: one task failed in its reasoning stage having sent the
\* reasoning request only, another failed in its response stage having sent
\* each request once
C24_Witness ==
    \E t, u \in TaskIds :
        /\ cause[t] = "stage1" /\ issued[t] = <<DEEPSEEK_MODEL>>
        /\ cause[u] = "stage2" /\ issued[u] = <<DEEPSEEK_MODEL, CLAUDE_MODEL>>
        /\ activeTasks[t].status = "error" /\ activeTasks[u].status = "error"

\* C25: empty results are handled asymmetrically.  The step in which the
\* reasoning call of a task returns empty or missing reasoning takes the task
\* from reasoning to error with the message of getDeepseekReasoning, never to
\* responding or complete, sends no response request and leaves the rolling
\* context alone; the step in which the response call returns empty content
\* completes the task with the non-empty placeholder as its response and
\* appends an entry with that same response to the rolling context.
C25_EmptyResults ==
    [][\A t \in TaskIds :
           /\ Stage1Return(t, "")
                  => /\ activeTasks[t].status = "reasoning"
                     /\ activeTasks'[t].status = "error"
                     /\ activeTasks'[t].error = NoReasoningError.message
                     /\ trail'[t] = <<"pending", "reasoning", "error", "error">>
                     /\ issued'[t] = <<DEEPSEEK_MODEL>>
                     /\ request'[t] = NoRequest
                     /\ context' = context
           /\ Stage2Return(t, "")
                  => /\ activeTasks'[t].status = "complete"
                     /\ activeTasks'[t].response = "Error: No response content"
                     /\ Truthy(activeTasks'[t].response)
                     /\ activeTasks'[t].error = undefined
                     /\ Len(context') > 0
                     /\ context'[Len(context')].response = activeTasks'[t].response
                     /\ context'[Len(context')].prompt = activeTasks'[t].prompt
      ]_vars

\* C25 witness: one task ended in error on an empty reasoning, another is
\* complete with the placeholder as its response, which is the last entry of
\* the rolling context
C25_Witness ==
    \E t, u \in TaskIds :
        /\ activeTasks[t].status = "error"
        /\ activeTasks[t].error = NoReasoningError.message
        /\ activeTasks[u].status = "complete"
        /\ activeTasks[u].response = "Error: No response content"
        /\ Len(context) > 0
        /\ context[Len(context)].response = "Error: No response content"

\* C26 as stated: both servers answer check_response_status as the status
\* waiter does.  A call for a task that has not ended does not return in the
\* step it is made; it stays suspended until the status of the task differs
\* from the one seen at the call, the task has ended, or the delay has
\* elapsed, and then answers with the status object of the record as it is.
C26_SameWaiterBehaviour ==
    [][\A id \in TaskIds :
           /\ (CheckResponseStatus(id) /\ Created(id))
                  => /\ activeTasks[id].status \in Terminal
                     /\ checkReply'.result = statusResult(activeTasks[id])
           /\ (HandleCheckResponseStatus(id) /\ Created(id))
                  => IF activeTasks[id].status \in Terminal
                     THEN pollReply'.result = statusResult(activeTasks[id])
                     ELSE poller'.state = "waiting" /\ pollReply' = pollReply
           /\ (poller.state = "waiting" /\ poller.taskId = id /\ poller' = Idle)
                  => /\ \/ activeTasks[id].status # poller.initialStatus
                        \/ activeTasks[id].status \in Terminal
                        \/ poller.elapsed >= POLL_DELAY_MS
                     /\ pollReply'.result = statusResult(activeTasks[id])
      ]_vars

\* C27 as stated: the rolling context a task created with clearContext reads
\* when it builds its reasoning request and its response request holds no
\* entry of a task created before it: every entry it reads is the triple of
\* a complete task created after it.
C27_ClearedContextRead ==
    \A t \in TaskIds :
        (pc[t] \in {"stage1", "stage2"} /\ locals[t].clearContext)
        => \A i \in 1..Len(request[t].read) :
               \E u \in TaskIds :
                   /\ u > t
                   /\ activeTasks[u].status = "complete"
                   /\ TripleOf(request[t].read[i]) = TripleOf(activeTasks[u])

\* C28 as stated: the step in which the reasoning call of a task returns its
\* text stores that text in the record, and from then on every step leaves
\* the reasoning field of the record as it is, the step that records a
\* failure of the response stage included.
C28_ReasoningKept ==
    [][\A t \in TaskIds :
           /\ (pc[t] = "stage1" /\ pc'[t] = "stage2")
                  => Truthy(activeTasks'[t].reasoning)
           /\ (Created(t) /\ Truthy(activeTasks[t].reasoning))
                  => activeTasks'[t].reasoning = activeTasks[t].reasoning
      ]_vars

\* C29 as stated: the step in which a task builds its response request reads
\* the same rolling-context contents as the task read for its reasoning
\* request, whatever other tasks did in between.
C29_SameContextBothStages ==
    [][\A t \in TaskIds :
           (pc[t] = "stage1" /\ pc'[t] = "stage2")
               => request'[t].read = request[t].read]_vars

\* C29 amended: each request of a task is built from the rolling context as
\* it is in the step that sends the request (the reasoning request when the
\* history read has ended or, without history, at creation after the clear;
\* the response request when the reasoning call returns), and that step does
\* not change the context; so the two requests of a task read the same
\* contents when the context is the same at both steps.
C29_ContextReadWhenSent ==
    [][\A t \in TaskIds :
           /\ (request'[t] # request[t] /\ request'[t] # NoRequest)
                  => request'[t].read = context'
           /\ (pc[t] = "stage1" /\ pc'[t] = "stage2")
                  => /\ context' = context
                     /\ request'[t].model = CLAUDE_MODEL
                     /\ (context = request[t].read
                            => request'[t].read = request[t].read)
      ]_vars

\* C29 witness: a task created with clearContext sent its reasoning request
\* with an empty context, a task created before it completed afterwards, and
\* its response request carries that task's entry
C29_Witness ==
    /\ nextId = 3
    /\ pc[2] = "stage2"
    /\ locals[2].clearContext
    /\ activeTasks[1].status = "complete"
    /\ Len(request[2].read) = 1
    /\ request[2].read = context
    /\ TripleOf(context[1]) = TripleOf(activeTasks[1])

Observable == {"reasoning", "responding", "complete", "error"}

\* C30: the status pending is never seen by a caller.  The record is written
\* as pending and moved to reasoning in the one step of generate_response, so
\* in every state between two steps a created task is in reasoning,
\* responding, complete or error, and every answer of check_response_status
\* for a created task, of either server, at once or after waiting, carries one
\* of these; a call that waits never starts from pending.
C30_PendingNeverSeen ==
    /\ \A t \in TaskIds : Created(t) => activeTasks[t].status \in Observable
    /\ (checkReply # NoReply /\ checkReply.error = undefined)
           => checkReply.result.status \in Observable
    /\ (pollReply # NoReply /\ pollReply.error = undefined)
           => pollReply.result.status \in Observable
    /\ poller.state = "waiting" => poller.initialStatus \in Observable

\* C30 witness: a task whose record was written as pending is asked for
\* before its reasoning call has returned, and the answer says reasoning
C30_Witness ==
    \E t \in TaskIds :
        /\ pc[t] = "stage1"
        /\ trail[t] = <<"pending", "reasoning">>
        /\ checkReply # NoReply
        /\ checkReply.taskId = t
        /\ checkReply.error = undefined
        /\ checkReply.result.status = "reasoning"

\* C31 as stated: the registry keeps a task that has ended as it ended: no
\* call of setTaskStatus or updateTask changes the status of a task whose
\* status is complete or error, whatever status and fields are passed.
C31_RegistryKeepsTerminal ==
    [][\A taskId \in TMIds :
           (tasks[taskId] # NoTask /\ tasks[taskId].status \in Terminal)
               => tasks'[taskId].status = tasks[taskId].status]_vars

====
